---- MODULE Spec2Model ----
(***************************************************************************)
(* Model of the lanelet2 default mission planner                           *)
(* (planning/autoware_mission_planner/src/lanelet2_plugins/                *)
(* default_planner.cpp): DefaultPlanner::plan, ::is_goal_valid and         *)
(* ::check_goal_footprint_inside_lanes.                                    *)
(*                                                                         *)
(* Geometry is abstracted to what the code reads of it:                    *)
(*  - a polygon is the set of lanelet regions it covers (region 0 is       *)
(*    ground that belongs to no lanelet), so boost::geometry::within is    *)
(*    set inclusion;                                                       *)
(*  - lengths and distances are naturals (exact arithmetic: the rounding  *)
(*    of double += / -= is not modelled);                                  *)
(*  - angles are integer degrees.                                          *)
(***************************************************************************)
EXTENDS Integers, Sequences, FiniteSets, TLC

(* ------------------------------ bounds -------------------------------- *)
NumLanelets == 3
MaxPairs == 2
MaxDist == 2
MaxLen == 2
MaxOffset == 1
MaxMargin == 1

Lanelets == 1..NumLanelets
\* region 0: ground covered by no lanelet
Regions == 0..NumLanelets
\* yaw angles in degrees, chosen so that differences wrap around +-180
Yaws == {-170, 0, 170}

(* --------------------------- pure helpers ----------------------------- *)
Abs(x) == IF x < 0 THEN -x ELSE x

\* autoware_universe_utils::normalizeRadian, in degrees: wraps into [-180, 180)
normalizeRadian(a) == ((a + 180) % 360) - 180

\* lines 303-307 and 358-363: |normalizeRadian(lane_yaw - goal_yaw)| < th_angle
AngleWithinThreshold(lane_yaw, goal_yaw, th) ==
  Abs(normalizeRadian(lane_yaw - goal_yaw)) < th

Range(s) == {s[i] : i \in DOMAIN s}

Last(s) == s[Len(s)]

\* lines 413-414: skip a lane whose id equals the id merged just before it
MergeLaneNoSkip(all, lane) == Append(all, lane)

MergeLane(all, lane) ==
  IF all # <<>> /\ lane = Last(all) THEN all ELSE Append(all, lane)

\* lines 412-415: merge one pair's path into the accumulated list
RECURSIVE MergePath(_, _)
MergePath(all, path) ==
  IF path = <<>> THEN all
  ELSE MergePath(MergeLane(all, Head(path)), Tail(path))

\* lines 402-416: the loop over consecutive checkpoint pairs; answers[i] is
\* what planPathLaneletsBetweenCheckpoints answers for pair i
RECURSIVE PlanLoop(_, _, _)
PlanLoop(answers, i, all) ==
  IF i > Len(answers) THEN [ok |-> TRUE, lanes |-> all]
  ELSE IF ~answers[i].ok THEN [ok |-> FALSE, lanes |-> all]
  ELSE PlanLoop(answers, i + 1, MergePath(all, answers[i].lanes))

\* RouteHandler::createMapSegments: one section per lanelet of the path, the
\* lanelet itself being the preferred primitive
createMapSegments(lanes) ==
  [i \in 1..Len(lanes) |-> [preferred |-> lanes[i], primitives |-> {lanes[i]}]]

\* RouteHandler::isRouteLooped: an id appearing non-consecutively more than once
isRouteLooped(sections) ==
  \E i, j \in 1..Len(sections) :
    /\ j > i + 1
    /\ sections[i].primitives \cap sections[j].primitives # {}

(* ------------------------------ values -------------------------------- *)
\* a default-constructed geometry_msgs Pose
DefaultPose == [pt |-> 0, yaw |-> 0, z |-> "zero", snapped |-> FALSE]

\* a default-constructed LaneletRoute (line 398)
DefaultRoute == [start_pose |-> DefaultPose, goal_pose |-> DefaultPose, segments |-> <<>>]

\* checkpoint k of a call with n points; only the goal's heading is read
Checkpoint(k, n, gy) ==
  [pt |-> k, yaw |-> IF k = n THEN gy ELSE 0, z |-> "raw", snapped |-> FALSE]

\* lines 95-125: snap == 0 when getClosestLaneletWithConstrains finds nothing,
\* else the index (1..3) of the lane yaw at the nearest centerline point
YawOf(i) == IF i = 1 THEN -170 ELSE IF i = 2 THEN 0 ELSE 170

get_closest_centerline_pose(point, snap) ==
  IF snap = 0 THEN point
  ELSE [pt |-> point.pt, yaw |-> YawOf(snap), z |-> "centerline", snapped |-> TRUE]

\* lines 447-458: overwrite z by the projection on the last preferred lanelet
refine_goal_height(goal, sections) ==
  [goal EXCEPT !.z = "map"]

EmptyMap == [kind |-> <<>>, next |-> <<>>, len |-> <<>>, shoulders |-> <<>>]
NoParam == [goal_angle_threshold_deg |-> 0, enable_correct_goal_pose |-> FALSE,
            check_footprint_inside_lanes |-> FALSE]
NoVehicle == [max_longitudinal_offset_m |-> 0]
NoGeo == [d |-> <<>>, b |-> <<>>, order |-> <<>>, shoulder_yaw |-> 0, lane_yaw |-> 0,
          lot |-> FALSE, space |-> FALSE, fp |-> {}]
NoProbe == [branch |-> "none", len |-> 0, chain |-> <<>>, combined |-> {}, margin |-> 0,
            depth |-> 0]
NoFail == [cause |-> "none", route |-> DefaultRoute]

VARIABLES
  pc,                 \* new, idle, is_goal_valid, search, goal_tail, plan_tail, returned
  is_graph_ready_,
  param_,
  vehicle_info_,
  default_search_margin, \* default argument of search_margin (declared in the header)
  map,                \* route_handler_'s lanelet map and routing graph
  route_lanelets_,    \* route_handler_'s route lanelets
  paths,              \* this call's answers of the path search, one per checkpoint pair
  points,             \* this call's checkpoints
  all_route_lanelets,
  route_sections,
  goal_pose,
  geo,                \* what the map answers about the goal pose in is_goal_valid
  closest_lanelet,
  next_lane_length,
  stack,              \* frames of check_goal_footprint_inside_lanes, innermost last
  retval,             \* value an invocation of the search just returned: none, true, false
  ret_entry_len,      \* next_lane_length at the entry of the invocation that returned
  probe,              \* the last comparison of line 268
  valid,              \* is_goal_valid's result: none, valid, invalid
  rule,               \* which return statement of is_goal_valid produced it
  ret,                \* the LaneletRoute the call returned
  cause,              \* which return statement of plan produced ret
  log,                \* the warning the call logged
  refined,            \* refine_goal_height ran in this call
  prev_fail           \* cause and result of the latest earlier call that failed

vars == <<pc, is_graph_ready_, param_, vehicle_info_, default_search_margin, map,
          route_lanelets_, paths, points, all_route_lanelets, route_sections, goal_pose,
          geo, closest_lanelet, next_lane_length, stack, retval, ret_entry_len, probe,
          valid, rule, ret, cause, log, refined, prev_fail>>

config_vars == <<is_graph_ready_, param_, vehicle_info_, default_search_margin, map>>
call_vars == <<paths, points, all_route_lanelets, route_sections, goal_pose>>
goal_vars == <<geo, closest_lanelet, valid, rule>>
search_vars == <<next_lane_length, stack, retval, ret_entry_len, probe>>
result_vars == <<ret, cause, log, refined>>

Init ==
  /\ pc = "new"
  /\ is_graph_ready_ = FALSE
  /\ param_ = NoParam
  /\ vehicle_info_ = NoVehicle
  /\ default_search_margin = 0
  /\ map = EmptyMap
  /\ route_lanelets_ = <<>>
  /\ paths = <<>>
  /\ points = <<>>
  /\ all_route_lanelets = <<>>
  /\ route_sections = <<>>
  /\ goal_pose = DefaultPose
  /\ geo = NoGeo
  /\ closest_lanelet = 0
  /\ next_lane_length = 0
  /\ stack = <<>>
  /\ retval = "none"
  /\ ret_entry_len = 0
  /\ probe = NoProbe
  /\ valid = "none"
  /\ rule = "none"
  /\ ret = DefaultRoute
  /\ cause = "none"
  /\ log = ""
  /\ refined = FALSE
  /\ prev_fail = NoFail

(* --------------------- initialisation and the map --------------------- *)
\* lines 132-161: initialize reads the vehicle info and the parameters
initialize(p, v, m) ==
  /\ pc = "new"
  /\ pc' = "idle"
  /\ is_graph_ready_' = FALSE
  /\ param_' = p
  /\ vehicle_info_' = v
  /\ default_search_margin' = m
  /\ UNCHANGED <<map, route_lanelets_, prev_fail>>
  /\ UNCHANGED <<call_vars, goal_vars, search_vars, result_vars>>

\* lines 168-172
map_callback(msg) ==
  /\ pc = "idle"
  /\ map' = msg
  /\ is_graph_ready_' = TRUE
  /\ UNCHANGED <<pc, param_, vehicle_info_, default_search_margin, route_lanelets_, prev_fail>>
  /\ UNCHANGED <<call_vars, goal_vars, search_vars, result_vars>>

(* -------------------------------- plan -------------------------------- *)
RouteLaneletsAlways(r, old) == r.lanes

\* lines 406-417: setRouteLanelets is reached only when every pair was connected
RouteLaneletsAfterLoop(r, old) == IF r.ok THEN r.lanes ELSE old

\* lines 420-425
GoalPose(pts, snap) ==
  IF param_.enable_correct_goal_pose
  THEN get_closest_centerline_pose(Last(pts), snap)
  ELSE Last(pts)

\* lines 385-425: n checkpoints, the path search answers `answers`, the goal
\* heading is gy; ends at the return of line 409 or at the call of is_goal_valid
PlanStart(n, answers, gy, snap) ==
  /\ pc = "idle"
  /\ is_graph_ready_
  /\ LET pts == [k \in 1..n |-> Checkpoint(k, n, gy)]
         r == PlanLoop(answers, 1, <<>>)
     IN /\ paths' = answers
        /\ route_lanelets_' = RouteLaneletsAfterLoop(r, route_lanelets_)
        /\ IF ~r.ok
           THEN /\ log' = "Failed to plan route."
                /\ ret' = DefaultRoute
                /\ cause' = "no_path"
                /\ pc' = "returned"
                /\ UNCHANGED <<points, all_route_lanelets, route_sections, goal_pose>>
           ELSE /\ points' = pts
                /\ all_route_lanelets' = r.lanes
                /\ route_sections' = createMapSegments(r.lanes)
                /\ goal_pose' = GoalPose(pts, snap)
                /\ pc' = "is_goal_valid"
                /\ UNCHANGED <<ret, cause, log>>
  /\ UNCHANGED <<config_vars, goal_vars, search_vars, refined, prev_fail>>

(* ---------------------------- is_goal_valid --------------------------- *)
\* lines 316-330: laneletLayer.nearestUntil visits the lanelets by increasing
\* bounding-box distance and returns the lanelet at which the callback
\* answered true, or nothing when the callback never did.  The callback
\* stops at a bounding box farther than the closest distance found so far.
RECURSIVE nearestUntil(_, _, _, _, _)
nearestUntil(g, kind, i, closest_dist, closest) ==
  IF i > Len(g.order) THEN [found |-> FALSE, closest |-> closest]
  ELSE LET ll == g.order[i]
       IN IF g.b[ll] > closest_dist THEN [found |-> TRUE, closest |-> closest]
          ELSE IF kind[ll] = "road" /\ g.d[ll] < closest_dist
               THEN nearestUntil(g, kind, i + 1, g.d[ll], ll)
               ELSE nearestUntil(g, kind, i + 1, closest_dist, closest)

\* std::numeric_limits<double>::max() (line 316): above every distance
DoubleMax == MaxDist + 1

\* line 331: the goal is rejected when nearestUntil returned nothing
RejectedByNearest(near) == ~near.found

\* getShoulderLaneletsAtPose / getRoadLaneletsAtPose: lanelets of the kind
\* that contain the goal point
LaneletsAtPose(g, kind, k) == {l \in Lanelets : kind[l] = k /\ g.d[l] = 0}

\* combine_lanelets_with_shoulder: the union of the lanelets' regions, each
\* with the shoulder lanelets next to it
Combine(regions, lane) == regions \cup {lane} \cup map.shoulders[lane]

RECURSIVE CombineAll(_)
CombineAll(lanes) ==
  IF lanes = <<>> THEN {} ELSE Combine(CombineAll(Tail(lanes)), Head(lanes))

\* lines 348-349 and 279-280: neither call passes search_margin, so the
\* default argument is what every invocation receives
TopLevelMargin == default_search_margin
RecursiveMargin(frame) == default_search_margin

Frame(cur, combined, margin, entry_len, chain) ==
  [cur |-> cur, combined |-> combined, following |-> <<>>, phase |-> "enter",
   next_lane |-> 0, search_margin |-> margin, entry_len |-> entry_len, chain |-> chain]

\* line 307: the shoulder rule
ShoulderRule(g) ==
  /\ LaneletsAtPose(g, map.kind, "shoulder") # {}
  /\ AngleWithinThreshold(YawOf(g.shoulder_yaw), goal_pose.yaw,
                          param_.goal_angle_threshold_deg)

\* lines 334-349: after the closest lanelet is known
StartFootprintCheck(closest) ==
  /\ closest_lanelet' = closest
  /\ next_lane_length' = 0
  /\ valid' = "none"
  /\ rule' = "none"
  /\ IF param_.check_footprint_inside_lanes
     THEN /\ stack' = <<Frame(closest, CombineAll(all_route_lanelets),
                              TopLevelMargin, 0, <<>>)>>
          /\ pc' = "search"
     ELSE /\ stack' = <<>>
          /\ pc' = "goal_tail"

\* lines 291-349: up to the first return or the call of the containment search
IsGoalValidEnter(g) ==
  /\ pc = "is_goal_valid"
  /\ geo' = g
  /\ retval' = "none"
  /\ ret_entry_len' = 0
  /\ probe' = NoProbe
  /\ LET roads == LaneletsAtPose(g, map.kind, "road")
         near == nearestUntil(g, map.kind, 1, DoubleMax, 0)
     IN IF ShoulderRule(g)
        THEN /\ valid' = "valid"
             /\ rule' = "shoulder"
             /\ pc' = "plan_tail"
             /\ UNCHANGED <<closest_lanelet, next_lane_length, stack>>
        ELSE IF roads # {}
        THEN \E c \in roads : StartFootprintCheck(c)
        ELSE IF RejectedByNearest(near)
        THEN /\ valid' = "invalid"
             /\ rule' = "no_road"
             /\ pc' = "plan_tail"
             /\ closest_lanelet' = near.closest
             /\ UNCHANGED <<next_lane_length, stack>>
        ELSE StartFootprintCheck(near.closest)
  /\ UNCHANGED <<config_vars, route_lanelets_, call_vars, result_vars, prev_fail>>

(* ------------------ check_goal_footprint_inside_lanes ------------------ *)
Top == stack[Len(stack)]

\* boost::geometry::within(goal_footprint, polygon) (lines 254 and 272)
Within(fp, regions) == fp \subseteq regions

\* line 268: the accumulated length exceeds the offset plus the margin
LengthExceedsClaimed(len, margin) ==
  ~(len + margin < vehicle_info_.max_longitudinal_offset_m)

LengthNeverExceeds(len, margin) == FALSE

LengthExceeds(len, margin) ==
  vehicle_info_.max_longitudinal_offset_m + margin < len

\* lines 269 and 281: undo the addition of line 260
NoBacktrack(len, lane) == len

Backtrack(len, lane) == len - map.len[lane]

\* an invocation returns v to its caller (lines 255, 273, 284, 288)
Return(v) ==
  /\ stack' = SubSeq(stack, 1, Len(stack) - 1)
  /\ retval' = v
  /\ ret_entry_len' = Top.entry_len
  /\ pc' = IF Len(stack) = 1 THEN "goal_tail" ELSE "search"

\* lines 254-257: entry of an invocation
CheckEnter ==
  /\ pc = "search"
  /\ stack # <<>>
  /\ Top.phase = "enter"
  /\ probe' = NoProbe
  /\ IF Within(geo.fp, Top.combined)
     THEN Return("true")
     ELSE /\ stack' = [stack EXCEPT ![Len(stack)].following = map.next[Top.cur],
                                    ![Len(stack)].phase = "loop"]
          /\ UNCHANGED <<retval, ret_entry_len, pc>>
  /\ UNCHANGED <<next_lane_length>>
  /\ UNCHANGED <<config_vars, route_lanelets_, call_vars, goal_vars, result_vars, prev_fail>>

\* lines 259-280 and 288: one iteration of the loop over the following lanelets
CheckLoop ==
  /\ pc = "search"
  /\ stack # <<>>
  /\ Top.phase = "loop"
  /\ IF Top.following = <<>>
     THEN /\ Return("false")
          /\ probe' = NoProbe
          /\ UNCHANGED next_lane_length
     ELSE LET next_lane == Head(Top.following)
              added == next_lane_length + map.len[next_lane]
              combined_lanelets == Combine(Top.combined, next_lane)
              chain == Append(Top.chain, next_lane)
          IN IF LengthExceeds(added, Top.search_margin)
             THEN /\ next_lane_length' = Backtrack(added, next_lane)
                  /\ probe' = [branch |-> "test", len |-> added, chain |-> chain,
                               combined |-> combined_lanelets,
                               margin |-> Top.search_margin, depth |-> Len(stack)]
                  /\ IF Within(geo.fp, combined_lanelets)
                     THEN Return("true")
                     ELSE /\ stack' = [stack EXCEPT
                                         ![Len(stack)].following = Tail(Top.following)]
                          /\ UNCHANGED <<retval, ret_entry_len, pc>>
             ELSE /\ next_lane_length' = added
                  /\ probe' = [branch |-> "recurse", len |-> added, chain |-> chain,
                               combined |-> combined_lanelets,
                               margin |-> Top.search_margin, depth |-> Len(stack)]
                  /\ stack' = Append(
                       [stack EXCEPT ![Len(stack)].phase = "wait",
                                     ![Len(stack)].next_lane = next_lane],
                       Frame(next_lane, combined_lanelets, RecursiveMargin(Top),
                             added, chain))
                  /\ UNCHANGED <<retval, ret_entry_len, pc>>
  /\ UNCHANGED <<config_vars, route_lanelets_, call_vars, goal_vars, result_vars, prev_fail>>

\* lines 279-285: the recursive call has returned
CheckResume ==
  /\ pc = "search"
  /\ stack # <<>>
  /\ Top.phase = "wait"
  /\ retval # "none"
  /\ probe' = NoProbe
  /\ IF retval = "false"
     THEN /\ next_lane_length' = Backtrack(next_lane_length, Top.next_lane)
          /\ stack' = [stack EXCEPT ![Len(stack)].following = Tail(Top.following),
                                    ![Len(stack)].phase = "loop",
                                    ![Len(stack)].next_lane = 0]
          /\ retval' = "none"
          /\ UNCHANGED <<ret_entry_len, pc>>
     ELSE /\ Return("true")
          /\ UNCHANGED next_lane_length
  /\ UNCHANGED <<config_vars, route_lanelets_, call_vars, goal_vars, result_vars, prev_fail>>

(* ------------------------ is_goal_valid, the rest ---------------------- *)
\* lines 346-352: retval is "none" when the search was not called
FootprintRejected ==
  /\ param_.check_footprint_inside_lanes
  /\ retval = "false"
  /\ ~geo.lot

\* is_in_lane (lines 43-50): the distance to the lanelet's polygon is below epsilon
is_in_lane(lanelet) == geo.d[lanelet] = 0

\* lines 357-366
LaneRule ==
  /\ is_in_lane(closest_lanelet)
  /\ AngleWithinThreshold(YawOf(geo.lane_yaw), goal_pose.yaw,
                          param_.goal_angle_threshold_deg)

GoalRuleLaneFirst ==
  IF LaneRule THEN "lane"
  ELSE IF FootprintRejected THEN "footprint"
  ELSE IF geo.space THEN "space"
  ELSE IF geo.lot THEN "lot"
  ELSE "none_matched"

\* lines 346-383
GoalRule ==
  IF FootprintRejected THEN "footprint"
  ELSE IF LaneRule THEN "lane"
  ELSE IF geo.space THEN "space"
  ELSE IF geo.lot THEN "lot"
  ELSE "none_matched"

IsGoalValidTail ==
  /\ pc = "goal_tail"
  /\ rule' = GoalRule
  /\ valid' = IF GoalRule \in {"lane", "space", "lot"} THEN "valid" ELSE "invalid"
  /\ pc' = "plan_tail"
  /\ UNCHANGED <<geo, closest_lanelet>>
  /\ UNCHANGED <<config_vars, route_lanelets_, call_vars, search_vars, result_vars, prev_fail>>

(* ----------------------------- plan, the rest -------------------------- *)
PlanFailureNoLoopCheck ==
  IF valid # "valid" THEN "invalid_goal" ELSE "none"

\* lines 427-435: the cause of a failure, in the order the code tests them
PlanFailure ==
  IF valid # "valid" THEN "invalid_goal"
  ELSE IF isRouteLooped(route_sections) THEN "loop"
  ELSE "none"

PlanResultSegmentsFirst(failure) ==
  IF failure # "none" THEN [DefaultRoute EXCEPT !.segments = route_sections]
  ELSE [start_pose |-> Head(points),
        goal_pose |-> refine_goal_height(goal_pose, route_sections),
        segments |-> route_sections]

\* lines 429, 434 and 441-444: the value returned
PlanResult(failure) ==
  IF failure # "none" THEN DefaultRoute
  ELSE [start_pose |-> Head(points),
        goal_pose |-> refine_goal_height(goal_pose, route_sections),
        segments |-> route_sections]

WarningSame(failure) ==
  IF failure \in {"invalid_goal", "loop"}
  THEN "Goal is not valid! Please check position and angle of goal_pose"
  ELSE ""

\* lines 428 and 433: the warning logged
Warning(failure) ==
  IF failure = "invalid_goal"
  THEN "Goal is not valid! Please check position and angle of goal_pose"
  ELSE IF failure = "loop" THEN "Loop detected within route!"
  ELSE ""

\* lines 427-444
PlanTail ==
  /\ pc = "plan_tail"
  /\ cause' = PlanFailure
  /\ ret' = PlanResult(PlanFailure)
  /\ log' = Warning(PlanFailure)
  /\ refined' = (PlanFailure = "none")
  /\ pc' = "returned"
  /\ UNCHANGED <<config_vars, route_lanelets_, call_vars, goal_vars, search_vars, prev_fail>>

\* the caller takes the result; the locals of the call are gone
Release ==
  /\ pc = "returned"
  /\ pc' = "idle"
  /\ prev_fail' = IF cause # "none" THEN [cause |-> cause, route |-> ret] ELSE prev_fail
  /\ paths' = <<>>
  /\ points' = <<>>
  /\ all_route_lanelets' = <<>>
  /\ route_sections' = <<>>
  /\ goal_pose' = DefaultPose
  /\ geo' = NoGeo
  /\ closest_lanelet' = 0
  /\ next_lane_length' = 0
  /\ stack' = <<>>
  /\ retval' = "none"
  /\ ret_entry_len' = 0
  /\ probe' = NoProbe
  /\ valid' = "none"
  /\ rule' = "none"
  /\ ret' = DefaultRoute
  /\ cause' = "none"
  /\ log' = ""
  /\ refined' = FALSE
  /\ UNCHANGED <<config_vars, route_lanelets_>>

(* ------------------------- inputs of the model ------------------------- *)
AllRoad == [l \in Lanelets |-> "road"]

\* routing graphs: a ring, a two-way line, and every lanelet followed by all others
Ring == [l \in Lanelets |-> <<(l % NumLanelets) + 1>>]

TwoWay ==
  [l \in Lanelets |->
     (IF l < NumLanelets THEN <<l + 1>> ELSE <<>>) \o (IF l > 1 THEN <<l - 1>> ELSE <<>>)]

RECURSIVE Others(_, _)
Others(l, k) ==
  IF k > NumLanelets THEN <<>>
  ELSE (IF k = l THEN <<>> ELSE <<k>>) \o Others(l, k + 1)

Complete == [l \in Lanelets |-> Others(l, 1)]

LenMaps ==
  {[l \in Lanelets |-> 1], [l \in Lanelets |-> MaxLen],
   [l \in Lanelets |-> ((l - 1) % MaxLen) + 1]}

\* the shoulder lanelets whose id is next to a road lanelet's id lie beside it
Beside(kind) ==
  [l \in Lanelets |->
     IF kind[l] = "road"
     THEN {s \in Lanelets : kind[s] = "shoulder" /\ (s = l + 1 \/ s = l - 1)}
     ELSE {}]

MapsOf(kinds, graphs, lens) ==
  UNION {{[kind |-> k, next |-> g, len |-> ln, shoulders |-> Beside(k)] :
            g \in graphs, ln \in lens} : k \in kinds}

\* the paths the path search answers with: one lanelet, or, when edges are
\* asked for, also a lanelet and one that follows it in the routing graph
PathsOf(edges) ==
  {<<l>> : l \in Lanelets} \cup
  (IF edges THEN UNION {{<<l, m>> : m \in Range(map.next[l])} : l \in Lanelets} ELSE {})

Failed == [ok |-> FALSE, lanes |-> <<>>]

\* the path of a further pair starts on the lanelet the path before it ended
\* on, or, when the domain does not ask for a shared boundary, on any lanelet
Continues(a, p, D) ==
  IF a = <<>> THEN p[1] \in D.starts
  ELSE D.shared => p[1] = Last(Last(a).lanes)

\* k connected pairs
RECURSIVE Connected(_, _)
Connected(k, D) ==
  IF k = 0 THEN {<<>>}
  ELSE {Append(x[1], [ok |-> TRUE, lanes |-> x[2]]) :
          x \in {y \in Connected(k - 1, D) \X PathsOf(D.edges) : Continues(y[1], y[2], D)}}

\* the answers the path search gives in one call: every pair connected, or
\* some connected pairs and then a failure, after which no pair is asked
Answers(D) ==
  UNION {Connected(k, D) \cup
         (IF D.mayfail THEN {Append(a, Failed) : a \in Connected(k - 1, D)} ELSE {}) :
         k \in 1..D.pairs}

\* exact distance d and bounding-box distance b <= d of every lanelet to the goal
Distances(dmax) ==
  UNION {{[d |-> dd, b |-> bb] :
            bb \in {f \in [Lanelets -> 0..dmax] : \A l \in Lanelets : f[l] <= dd[l]}} :
         dd \in [Lanelets -> 0..dmax]}

\* the orders in which nearestUntil may visit: by increasing bounding-box distance
Orders(b) ==
  {o \in [Lanelets -> Lanelets] :
     /\ \A i, j \in Lanelets : i # j => o[i] # o[j]
     /\ \A i, j \in Lanelets : i < j => b[o[i]] <= b[o[j]]}

\* among equal bounding-box distances, by increasing id
IdOrder(b) ==
  CHOOSE o \in Orders(b) : \A i, j \in Lanelets : (i < j /\ b[o[i]] = b[o[j]]) => o[i] < o[j]

GeosOf(dists, anyorder, syaws, lyaws, lots, spaces, fps) ==
  UNION {{[d |-> x.d, b |-> x.b, order |-> o, shoulder_yaw |-> sy, lane_yaw |-> ly,
           lot |-> lt, space |-> sp, fp |-> f] :
            o \in IF anyorder THEN Orders(x.b) ELSE {IdOrder(x.b)}, sy \in syaws, ly \in lyaws, lt \in lots, sp \in spaces,
            f \in fps} : x \in dists}

ParamsOf(snaps, checks) ==
  [goal_angle_threshold_deg : {45}, enable_correct_goal_pose : snaps,
   check_footprint_inside_lanes : checks]

VehiclesOf(offsets) == [max_longitudinal_offset_m : offsets]

\* the actions, their inputs drawn from the domains D
NextOn(D) ==
  \/ \E p \in D.params, v \in D.vehicles, m \in D.margins : initialize(p, v, m)
  \/ \E msg \in D.maps : map_callback(msg)
  \/ /\ pc = "idle" /\ is_graph_ready_
     /\ \E a \in Answers(D) : \E gy \in D.yaws, snap \in D.snaps :
          PlanStart(Len(a) + 1, a, gy, snap)
  \/ /\ pc = "is_goal_valid"
     /\ \E g \in D.geos : IsGoalValidEnter(g)
  \/ CheckEnter
  \/ CheckLoop
  \/ CheckResume
  \/ IsGoalValidTail
  \/ PlanTail
  \/ Release

\* the goal point on lanelet 1 only; bounding boxes as far as the polygons
OnLaneletOne ==
  {x \in Distances(1) : x.b = x.d /\ \A l \in Lanelets : x.d[l] = 0 <=> l = 1}

\* plan: every number of pairs, paths that share their boundary lanelet or
\* not, a path search that may fail, a footprint on lanelet 1 or off the lanes
PlanDomain ==
  [params |-> ParamsOf({TRUE}, {TRUE}),
   vehicles |-> VehiclesOf({1}),
   margins |-> {0},
   maps |-> MapsOf({AllRoad}, {TwoWay}, {[l \in Lanelets |-> 1]}),
   pairs |-> MaxPairs,
   edges |-> TRUE,
   starts |-> Lanelets,
   shared |-> FALSE,
   mayfail |-> TRUE,
   yaws |-> {0},
   snaps |-> {0, 2},
   geos |-> GeosOf(OnLaneletOne, FALSE, {2}, {2}, {FALSE}, {FALSE}, {{1}, {0}})]

Next == NextOn(PlanDomain)

Spec == Init /\ [][Next]_vars

\* the nearest search: every mix of road and shoulder lanelets, every exact
\* and bounding-box distance; the lanelets are numbered in the order of the
\* visit (by increasing bounding-box distance), which loses no case because
\* the kinds and distances of the numbers are arbitrary
VisitedInIdOrder ==
  {x \in Distances(MaxDist) : \A l \in Lanelets : l > 1 => x.b[l - 1] <= x.b[l]}

NearestDomain ==
  [params |-> ParamsOf({FALSE}, BOOLEAN),
   vehicles |-> VehiclesOf({1}),
   margins |-> {0},
   maps |-> MapsOf([Lanelets -> {"road", "shoulder"}], {Ring}, {[l \in Lanelets |-> 1]}),
   pairs |-> 1,
   edges |-> FALSE,
   starts |-> {1},
   shared |-> FALSE,
   mayfail |-> FALSE,
   yaws |-> {0},
   snaps |-> {0},
   geos |-> GeosOf(VisitedInIdOrder, FALSE, {1, 2}, {2}, BOOLEAN, {FALSE}, {{0}})]

NextNearest == NextOn(NearestDomain)

SpecNearest == Init /\ [][NextNearest]_vars

\* the rule chain: lanelet 1 is a road lanelet at the goal pose, the others
\* are shoulder or road lanelets at the pose or off it; every heading of the
\* goal and of the lanes, parking space and lot, footprint inside or outside
RoadAtPose == {x \in Distances(1) : x.b = x.d /\ x.d[1] = 0}

FirstIsRoad == {k \in [Lanelets -> {"road", "shoulder"}] : k[1] = "road"}

ChainDomain ==
  [params |-> ParamsOf({FALSE}, BOOLEAN),
   vehicles |-> VehiclesOf({1}),
   margins |-> {0},
   maps |-> MapsOf(FirstIsRoad, {Ring}, {[l \in Lanelets |-> 1]}),
   pairs |-> 1,
   edges |-> FALSE,
   starts |-> {1},
   shared |-> FALSE,
   mayfail |-> FALSE,
   yaws |-> Yaws,
   snaps |-> {0},
   geos |-> GeosOf(RoadAtPose, FALSE, {1, 2}, {2, 3}, BOOLEAN, BOOLEAN, {{1}, {0}})]

NextChain == NextOn(ChainDomain)

SpecChain == Init /\ [][NextChain]_vars

\* the containment search: rings, two-way lines and complete routing graphs,
\* equal and unequal lanelet lengths, every offset and margin, footprints that
\* fit on the route, on a following lanelet, on several lanelets, or nowhere
SearchDomain ==
  [params |-> ParamsOf({FALSE}, {TRUE}),
   vehicles |-> VehiclesOf(0..MaxOffset),
   margins |-> 0..MaxMargin,
   maps |-> MapsOf({AllRoad}, {Ring, TwoWay, Complete}, LenMaps),
   pairs |-> 1,
   edges |-> FALSE,
   starts |-> {1},
   shared |-> FALSE,
   mayfail |-> FALSE,
   yaws |-> {0},
   snaps |-> {0},
   geos |-> GeosOf(OnLaneletOne, FALSE, {2}, {2}, {FALSE}, {FALSE},
                   {{0}, {1}, {NumLanelets}, {1, NumLanelets}, Lanelets})]

NextSearch == NextOn(SearchDomain)

SpecSearch == Init /\ [][NextSearch]_vars

\* check_goal_footprint_inside_lanes runs on the thread that called plan: once
\* it is entered, its next statement is eventually executed
SearchRuns == CheckEnter \/ CheckLoop \/ CheckResume

SpecSearchFair == SpecSearch /\ WF_vars(SearchRuns)

(* ------------------------------- claims -------------------------------- *)
Unconnected == \E i \in DOMAIN paths : ~paths[i].ok

\* C1: plan never returns a partial route.  If a checkpoint pair was not
\* connected, or is_goal_valid rejected the goal, or the route is looped, the
\* returned Route is the default one (no segments, unset poses); a Route with
\* segments is returned only when every pair was connected, the goal is
\* valid and the route is not looped.
C1_NoPartialRoute ==
  pc = "returned" =>
    /\ (Unconnected \/ valid = "invalid" \/ isRouteLooped(route_sections))
         => (ret.segments = <<>> /\ ret.start_pose = DefaultPose
             /\ ret.goal_pose = DefaultPose)
    /\ ret.segments # <<>>
         => (~Unconnected /\ valid = "valid" /\ ~isRouteLooped(route_sections))

\* a call whose pairs were all connected but whose goal was rejected has returned
C1_Witness ==
  /\ pc = "returned"
  /\ all_route_lanelets # <<>>
  /\ valid = "invalid"
  /\ ret.segments = <<>>

RECURSIVE Concat(_)
Concat(answers) ==
  IF answers = <<>> THEN <<>> ELSE Head(answers).lanes \o Concat(Tail(answers))

\* the elements of c that differ from the element right before them
RECURSIVE DropRepeats(_, _)
DropRepeats(c, i) ==
  IF i > Len(c) THEN <<>>
  ELSE (IF i > 1 /\ c[i] = c[i - 1] THEN <<>> ELSE <<c[i]>>) \o DropRepeats(c, i + 1)

\* C7: the merged lanelet list holds no two adjacent equal ids; it is the
\* concatenation of the pairs' paths without the elements equal to the one
\* before them.
C7_MergedWithoutRepeats ==
  (pc \in {"is_goal_valid", "search", "goal_tail", "plan_tail"}
     \/ (pc = "returned" /\ ~Unconnected)) =>
    /\ \A i \in 1..(Len(all_route_lanelets) - 1) :
         all_route_lanelets[i] # all_route_lanelets[i + 1]
    /\ all_route_lanelets = DropRepeats(Concat(paths), 1)

\* two pairs whose paths share the boundary lanelet have been merged
C7_Witness ==
  /\ pc = "is_goal_valid"
  /\ Len(paths) = 2
  /\ Last(paths[1].lanes) = Head(paths[2].lanes)
  /\ Len(all_route_lanelets) + 1 = Len(Concat(paths))

\* C8: a returned Route with segments holds no id at two non-adjacent
\* positions; a merged list that revisits a lanelet is rejected by the loop
\* check, after the goal validation and before the goal height is refined.
C8_NoLoopInReturnedRoute ==
  pc = "returned" =>
    /\ ret.segments # <<>> =>
         \A i, j \in 1..Len(ret.segments) :
           j > i + 1 => ret.segments[i].preferred # ret.segments[j].preferred
    /\ (~Unconnected /\ valid = "valid"
          /\ \E i, j \in 1..Len(all_route_lanelets) :
               j > i + 1 /\ all_route_lanelets[i] = all_route_lanelets[j])
         => (cause = "loop" /\ ret = DefaultRoute /\ ~refined)
    /\ cause = "loop" => valid = "valid"

\* a route that revisits a lanelet, with a valid goal, was rejected
C8_Witness ==
  /\ pc = "returned"
  /\ cause = "loop"
  /\ Len(all_route_lanelets) >= 3

\* C9 as stated: no step of a plan call changes the route handler's route
\* lanelets.
C9_Original == [][route_lanelets_' = route_lanelets_]_vars

\* C9, amended: a call that fails in the path search leaves the route
\* handler's route lanelets unchanged; a call whose pairs were all connected
\* replaces them by its merged list before the goal is validated, and they
\* stay replaced when the call then fails on the goal or on a loop.
C9_RouteLaneletsReplacedOnceConnected ==
  [][/\ (pc = "idle" /\ pc' = "is_goal_valid") => route_lanelets_' = all_route_lanelets'
     /\ ~(pc = "idle" /\ pc' = "is_goal_valid") => route_lanelets_' = route_lanelets_]_vars

\* a call that failed on the goal has left its merged list in the route handler
C9_Witness ==
  /\ pc = "returned"
  /\ cause = "invalid_goal"
  /\ route_lanelets_ = all_route_lanelets
  /\ route_lanelets_ # <<>>

(* the goal has been looked up on the map: is_goal_valid is past line 332 *)
LookedUp == pc \in {"search", "goal_tail", "plan_tail", "returned"} /\ geo # NoGeo

RoadLanelets == {l \in Lanelets : map.kind[l] = "road"}

NoLaneAtPose ==
  /\ LaneletsAtPose(geo, map.kind, "shoulder") = {}
  /\ LaneletsAtPose(geo, map.kind, "road") = {}

\* C3: when the shoulder rule did not accept and no road lanelet lies at the
\* goal pose, the nearest search rejects the goal exactly when the map holds
\* no road lanelet; when it holds one, the closest lanelet is the road
\* lanelet of smallest exact distance and the validation goes on.
C3_Original ==
  (LookedUp /\ rule # "shoulder" /\ LaneletsAtPose(geo, map.kind, "road") = {}) =>
    /\ rule = "no_road" <=> RoadLanelets = {}
    /\ RoadLanelets # {} =>
         /\ closest_lanelet \in RoadLanelets
         /\ \A l \in RoadLanelets : geo.d[closest_lanelet] <= geo.d[l]

\* C4: a goal in a parking lot and on no lane (no shoulder or road lanelet at
\* the pose, not in a parking space) is valid by the parking-lot rule, also
\* when the footprint check is enabled and the containment search fails.
C4_Original ==
  (pc \in {"plan_tail", "returned"} /\ geo # NoGeo /\ geo.lot /\ ~geo.space
     /\ NoLaneAtPose)
    => (valid = "valid" /\ rule = "lot")

\* the smallest angle between two headings, in degrees
HeadingGap(a, b) ==
  LET m == (a - b) % 360 IN IF m > 180 THEN 360 - m ELSE m

ShoulderAligned ==
  /\ LaneletsAtPose(geo, map.kind, "shoulder") # {}
  /\ HeadingGap(YawOf(geo.shoulder_yaw), goal_pose.yaw) < param_.goal_angle_threshold_deg

LaneAligned ==
  /\ geo.d[closest_lanelet] = 0
  /\ HeadingGap(YawOf(geo.lane_yaw), goal_pose.yaw) < param_.goal_angle_threshold_deg

FootprintFails ==
  param_.check_footprint_inside_lanes /\ retval = "false" /\ ~geo.lot

\* C5: with a road lanelet at the goal pose, is_goal_valid answers as the
\* ordered chain: (1) aligned shoulder lanelet at the pose: valid, before any
\* footprint check; (3) else check enabled, containment failed, not in a
\* parking lot: invalid, whatever the lane and the parking space say; (4) else
\* on the closest road lanelet and aligned: valid; (5) else in a parking
\* space: valid; (6) else in a parking lot: valid; (7) else invalid.  With
\* the check disabled the containment search has no say.
C5_OrderedChain ==
  (pc \in {"plan_tail", "returned"} /\ geo # NoGeo
     /\ LaneletsAtPose(geo, map.kind, "road") # {}) =>
    /\ ShoulderAligned => (valid = "valid" /\ retval = "none" /\ closest_lanelet = 0)
    /\ (~ShoulderAligned /\ FootprintFails) => valid = "invalid"
    /\ (~ShoulderAligned /\ ~FootprintFails /\ LaneAligned) => valid = "valid"
    /\ (~ShoulderAligned /\ ~FootprintFails /\ ~LaneAligned /\ geo.space) => valid = "valid"
    /\ (~ShoulderAligned /\ ~FootprintFails /\ ~LaneAligned /\ ~geo.space /\ geo.lot)
         => valid = "valid"
    /\ (~ShoulderAligned /\ ~FootprintFails /\ ~LaneAligned /\ ~geo.space /\ ~geo.lot)
         => valid = "invalid"
    /\ ~param_.check_footprint_inside_lanes => retval = "none"

\* a goal on its lane, aligned and in a parking space, rejected for its footprint
C5_Witness ==
  /\ pc = "plan_tail"
  /\ LaneletsAtPose(geo, map.kind, "road") # {}
  /\ ~ShoulderAligned
  /\ FootprintFails
  /\ LaneAligned
  /\ geo.space
  /\ valid = "invalid"

Compared == pc \in {"search", "goal_tail"} /\ probe.branch # "none"

\* C6 as stated: the search recurses when the accumulated length plus the
\* margin is below the maximum longitudinal offset, and tests otherwise.
C6_Original ==
  Compared =>
    (probe.branch = "recurse"
       <=> probe.len + probe.margin < vehicle_info_.max_longitudinal_offset_m)

\* C6, amended: after a following lanelet's length has been added, the search
\* recurses one level deeper from that lanelet, deciding nothing at this
\* level, when the accumulated length does not exceed the maximum
\* longitudinal offset plus the margin; when it exceeds it, the length is
\* taken off again, the footprint is tested against the combined polygon and
\* there is no recursion.  Every depth applies the margin of the top level.
C6_RecurseUntilLongEnough ==
  /\ Compared =>
       /\ probe.branch = "recurse"
            <=> probe.len <= vehicle_info_.max_longitudinal_offset_m + probe.margin
       /\ probe.branch = "recurse" =>
            /\ Len(stack) = probe.depth + 1
            /\ Top.phase = "enter" /\ Top.cur = Last(probe.chain)
            /\ Top.combined = probe.combined
            /\ next_lane_length = probe.len
            /\ retval = "none"
       /\ probe.branch = "test" =>
            /\ Len(stack) <= probe.depth
            /\ next_lane_length = probe.len - map.len[Last(probe.chain)]
            /\ retval = "true" <=> geo.fp \subseteq probe.combined
            /\ retval = "true" <=> Len(stack) < probe.depth
       /\ probe.margin = TopLevelMargin
  /\ \A i \in DOMAIN stack : stack[i].search_margin = stack[1].search_margin

\* at depth two the search went deeper although length plus margin is not
\* below the offset
C6_Witness ==
  /\ Compared
  /\ probe.branch = "recurse"
  /\ probe.depth >= 2
  /\ ~(probe.len + probe.margin < vehicle_info_.max_longitudinal_offset_m)

RECURSIVE SumLen(_)
SumLen(chain) == IF chain = <<>> THEN 0 ELSE map.len[Head(chain)] + SumLen(Tail(chain))

\* C10: an invocation that returns false leaves the accumulated length as it
\* was at its entry; so when a following lanelet is compared with the offset
\* the accumulated length is the sum of the lengths of the lanelets of the
\* current chain, without any abandoned branch.
C10_BacktrackingKeepsLength ==
  /\ (pc \in {"search", "goal_tail"} /\ retval = "false")
       => next_lane_length = ret_entry_len
  /\ Compared => probe.len = SumLen(probe.chain)

\* a lanelet is compared at depth two after an earlier sibling was abandoned
C10_Witness ==
  /\ Compared
  /\ Len(probe.chain) >= 2
  /\ Last(probe.chain) # Head(map.next[probe.chain[Len(probe.chain) - 1]])
  /\ probe.len = SumLen(probe.chain)

\* the length of the shortest lanelet of the map
ShortestLength ==
  CHOOSE m \in {map.len[l] : l \in Lanelets} : \A l \in Lanelets : m <= map.len[l]

\* the number of recursive calls that are nested in the running search
RecursionDepth == Len(stack) - 1

\* the footprint lies in no combination of lanelets of the map
FitsNowhere ==
  ~Within(geo.fp, CombineAll(all_route_lanelets)
                    \cup UNION {Combine({}, l) : l \in Lanelets})

\* C11: on every routing graph, cyclic ones included, whose lanelets have a
\* positive length, the containment search returns: the number of nested
\* recursive calls times the shortest lanelet length never exceeds the maximum
\* longitudinal offset plus the margin, every search that is entered returns
\* true or false, and one whose footprint fits nowhere returns false.
C11_SearchTerminates ==
  /\ [](pc = "search" =>
         /\ \A l \in Lanelets : map.len[l] > 0
         /\ RecursionDepth * ShortestLength
              <= vehicle_info_.max_longitudinal_offset_m + Top.search_margin)
  /\ (pc = "search") ~> (pc = "goal_tail" /\ retval \in {"true", "false"})
  /\ (pc = "search" /\ FitsNowhere) ~> (pc = "goal_tail" /\ retval = "false")

\* on a cyclic graph the search is back on the lanelet it started from, as
\* deep as the bound allows, with a footprint that fits nowhere
C11_Witness ==
  /\ pc = "search"
  /\ FitsNowhere
  /\ RecursionDepth >= 2
  /\ Top.cur = stack[1].cur
  /\ RecursionDepth * ShortestLength
       = vehicle_info_.max_longitudinal_offset_m + Top.search_margin

====
